---- MODULE Spec2Model ----
(***************************************************************************)
(* Model of MCPStatusReporter (scripts/test-mcp-workflow-integration.js,   *)
(* second half of the file): one reporter object, the steps of             *)
(* generateFullReport between its awaits, and the reporter CLI entry.      *)
(*                                                                         *)
(* Spec is the reporter program: the CLI entry constructs a reporter, calls *)
(* generateFullReport once and exits.  SpecReuse adds a script that        *)
(* required the exported class and calls generateFullReport a second time  *)
(* on the same object once the first call has settled.                     *)
(* SpecStatus is determineOverallStatus on its own, over every summary a   *)
(* sweep can leave.  SpecOverlap is several reporter processes persisting  *)
(* into the same report directory.                                         *)
(***************************************************************************)
EXTENDS Integers, Sequences, FiniteSets, TLC

\* ---------------------------------------------------------------- bounds
MaxServers == 3
MaxFleet == 10
MaxWarnings == 5
MaxRuns == 2
MaxLogs == 4
MaxClock == 15
MaxIssues == 2
MaxUpdates == 4
MaxAgents == 2

\* ------------------------------------------------------- environment sets
\* Registry keys in Object.entries order; a registry of size n is the
\* first n names.
ServerNames == <<"s1", "s2", "s3", "s4", "s5">>

\* Messages of the exceptions a probe can throw.
ProbeMessages == {"Invalid URL", "socket hang up"}

\* What the awaited probeHealth call can do: resolve true, resolve false,
\* or reject with an Error carrying a message.
ProbeOutcomes ==
    {[kind |-> "true", msg |-> "null"], [kind |-> "false", msg |-> "null"]}
    \cup {[kind |-> "throw", msg |-> m] : m \in ProbeMessages}

\* Values of this.timestamp.split('T')[0], in calendar order.
Dates == <<"2025-01-01", "2025-01-02">>

\* probeHealth(url, 5000, 500) (line 440): the policy of the sweep.
DefaultTimeoutMs == 5000
DefaultPollIntervalMs == 500
SweepPolicyShort ==
    [timeoutMs |-> 2 * DefaultPollIntervalMs,
     pollIntervalMs |-> DefaultPollIntervalMs]
SweepPolicy ==
    [timeoutMs |-> DefaultTimeoutMs, pollIntervalMs |-> DefaultPollIntervalMs]

\* Policies a probe is called with: the one of the sweep and a short one.
ProbePolicies ==
    {SweepPolicy,
     [timeoutMs |-> 2 * DefaultPollIntervalMs,
      pollIntervalMs |-> DefaultPollIntervalMs]}

\* Elapsed time (ms) from which a probed endpoint answers with success; the
\* last one is beyond every timeout.
ReadyTimes == {0, 400, 2000, 4990, 5200, 60000}

\* Time (ms) a request takes, from its start to its failure or success: more
\* than nothing.
RequestMs == {1, 40}

\* Classes of configLoadTime distinguished by collectPerformanceMetrics.
LoadTimes == {"lt1000", "lt3000", "ge3000"}

\* ------------------------------------------------------------------ state
VARIABLES
    pc,              \* position of the current generateFullReport call
    calls,           \* generateFullReport calls made on this object
    outcome,         \* promise of the current call: pending/resolved/rejected
    exitCode,        \* process exit code, -1 while the process runs
    summary,         \* this.results.summary
    system_info,     \* this.results.system_info
    mcp_servers,     \* this.results.components.mcp_servers
    workflows,       \* this.results.components.workflows
    packages,        \* this.results.components.packages
    performance,     \* this.results.components.performance
    recommendations, \* this.results.recommendations
    artifacts,       \* this.results.artifacts
    servers,         \* local `servers` of collectMCPServerStatus (its size)
    registry,        \* Object.entries(servers): the names in iteration order
    idx,             \* index of the registry entry the for loop is at
    serverResults,   \* local `serverResults` of collectMCPServerStatus
    files,           \* file system: path -> content
    probeLog,        \* history: what each probe of this sweep did
    failedSteps,     \* history: collection steps that threw in this call
    ioFailed,        \* history: fs operations that failed in this call
    attempted,       \* history: artifact writes issued in this call
    runPc,           \* reporter processes side by side: position of each
    runDate,         \* ... index in Dates of its this.timestamp date, 0: none
    runSummary,      \* ... its this.results.summary
    disk,            \* ... the file system they share: path -> content
    probe,           \* one call of probeHealth: its arguments and progress
    tester,          \* an MCPWorkflowTester, its runFullTest call and process
    oauth,           \* the server's authStates map and its OAuth requests
    readme,          \* README.md and the updateReadmeProgress calls made on it
    agent            \* the agent's status file and the runs of ContinuousAgent

reporterVars == <<pc, calls, outcome, exitCode, summary, system_info,
                  mcp_servers, workflows, packages, performance,
                  recommendations, artifacts, servers, registry, idx,
                  serverResults, files, probeLog, failedSteps, ioFailed,
                  attempted>>
overlapVars == <<runPc, runDate, runSummary, disk>>
vars == <<reporterVars, overlapVars, probe, tester, oauth, readme, agent>>

\* What the steps of one reporter object leave alone, and what the steps of
\* the reporters side by side leave alone.
notReporterVars == <<overlapVars, probe, tester, oauth, readme, agent>>
notOverlapVars == <<reporterVars, probe, tester, oauth, readme, agent>>

resultsVars == <<summary, system_info, mcp_servers, workflows, packages,
                 performance, recommendations, artifacts>>
loopVars == <<servers, registry, idx, serverResults, probeLog>>
procVars == <<calls, exitCode>>

\* Reporter processes that run side by side.
Runs == 1..MaxRuns

\* ---------------------------------------------------------------- values
Paths == {"run/json", "run/md", "run/summary", "root/json", "root/md"}

\* Paths of the shared file system: the three reports of each dated
\* directory (dir is an index in Dates) and the two fixed-location copies
\* (dir 0).
DiskPaths ==
    {<<d, f>> : d \in 1..Len(Dates), f \in {"json", "md", "summary"}}
    \cup {<<0, "json">>, <<0, "md">>}

NoFile ==
    [run |-> 0, overall_status |-> "absent", health_score |-> 0,
     artifacts |-> <<>>]

\* An entry of components.mcp_servers as Object.entries sees it.  For a
\* serverResult, hasConfig is TRUE; for the {error: message} object the
\* catch block stores, the single entry has key "error" and a string value,
\* which has no status and no config.
ServerEntry(name, status, error_message) ==
    [name |-> name, status |-> status, error_message |-> error_message,
     hasConfig |-> TRUE]

ErrorEntry ==
    [name |-> "error", status |-> "undefined", error_message |-> "undefined",
     hasConfig |-> FALSE]

UndefinedComponent == [defined |-> FALSE, entries |-> <<>>]

\* ------------------------------------------------------------ constructor
InitSummary ==
    [overall_status |-> "unknown", health_score |-> 0, total_servers |-> 0,
     healthy_servers |-> 0, failed_servers |-> 0, warnings |-> 0]

InitReporter ==
    /\ pc = "idle"
    /\ calls = 0
    /\ outcome = "none"
    /\ exitCode = -1
    /\ summary = InitSummary
    /\ system_info = "undefined"
    /\ mcp_servers = UndefinedComponent
    /\ workflows = "undefined"
    /\ packages = "undefined"
    /\ performance = "undefined"
    /\ recommendations = <<>>
    /\ artifacts = <<>>
    /\ servers = 0
    /\ registry = <<>>
    /\ idx = 0
    /\ serverResults = <<>>
    /\ files = [p \in Paths |-> NoFile]
    /\ probeLog = <<>>
    /\ failedSteps = {}
    /\ ioFailed = {}
    /\ attempted = {}
    /\ runPc = [r \in Runs |-> "idle"]
    /\ runDate = [r \in Runs |-> 0]
    /\ runSummary = [r \in Runs |-> InitSummary]
    /\ disk = [p \in DiskPaths |-> NoFile]

\* No call of probeHealth is under way.
NoProbe ==
    [timeoutMs |-> 0, pollIntervalMs |-> 0, readyAt |-> 0, elapsed |-> 0,
     times |-> <<>>, result |-> "none"]

\* MCPWorkflowTester.constructor (lines 12-19); no report, no call yet.
NewTester ==
    [pc |-> "idle", passed |-> 0, failed |-> 0, warnings |-> 0,
     tests |-> <<>>,
     report |-> [written |-> FALSE, total_tests |-> 0, passed |-> 0,
                 failed |-> 0, warnings |-> 0, score |-> 0,
                 status |-> "none"],
     returned |-> "none", exitCode |-> -1]

\* Values generateRandomString(16) can return (lines 155-159).
StateValues == {"a1b2", "c3d4"}

\* 10 * 60 * 1000 ms (line 255), in minutes, the unit of the clock.
TenMinutes == 10

\* The server after start-up (line 152): an empty authStates map; the clock
\* at 0; no request handled yet.  A map entry of -1 is an absent key;
\* oldest is the greatest age, in minutes, a state had when its callback was
\* accepted, -1 before any was.
NewServer ==
    [now |-> 0,
     authStates |-> [v \in StateValues |-> -1],
     issued |-> [v \in StateValues |-> 0],
     exchanges |-> [v \in StateValues |-> 0],
     inflight |-> [v \in StateValues |-> 0],
     oldest |-> -1,
     request |-> [path |-> "none", state |-> "none"],
     response |-> "none"]

\* README.md as a sequence of pieces of text: "n" is a newline, "##" two
\* hashes at the start of a line, "#" a further hash, "M" the progress
\* marker '## ... Continuous Development Progress', anything else other
\* text.  A README without the marker, one whose progress section is followed
\* by another section, one that ends with a progress section, one whose
\* progress section has a subsection of its own, and an empty one.
Readmes ==
    {<<>>,
     <<"title", "n", "intro">>,
     <<"title", "n", "M", "n", "old", "n", "##", "#", "sub", "n", "n", "##",
       "license", "n">>,
     <<"title", "n", "M", "n", "old", "n", "##", "license", "n">>,
     <<"title", "n", "M", "n", "old">>}

NoReadme == [initial |-> <<>>, content |-> <<>>, calls |-> 0]

\* agent-workflow/current-status.json before any cycle: the fields run and
\* incrementCycle read and write; errors is the length of the errors array.
StatusFile ==
    [cycle |-> 0, status |-> "initialized", current_task |-> "setup",
     next_action |-> "start", errors |-> 0]

\* The invocations of the agent, each a process of its own.
Agents == 1..MaxAgents

\* A run that has not been started: position, CLI mode, token, the config it
\* loaded, the cycle number it obtained (0: none), the status object it
\* holds, the analysis, the files it wrote, the issues it created, whether
\* its catch block was entered, and how and with what status file it ended.
NewRun ==
    [pc |-> "idle", mode |-> "full", githubToken |-> FALSE,
     loaded |-> FALSE, enabled |-> FALSE, auto_create_pr |-> FALSE,
     cycle |-> 0, status |-> StatusFile, analysis |-> FALSE, wrote |-> {},
     issues |-> 0, thrown |-> FALSE, errorsBefore |-> 0,
     outcome |-> "none", exitCode |-> -1, final |-> StatusFile]

NoAgent == [file |-> StatusFile, runs |-> [r \in Agents |-> NewRun]]

Init ==
    /\ InitReporter
    /\ probe = NoProbe
    /\ tester = NewTester
    /\ oauth = NewServer
    /\ readme = NoReadme
    /\ agent = NoAgent

\* --------------------------------------------------------- pure functions
\* Math.round(h / t * 100) for integers h >= 0, t > 0: the nearest integer,
\* halves rounded up.
RoundPercent(h, t) == (200 * h + t) \div (2 * t)

\* A score computed from the wrong counter.
HealthScoreFromFailed(s) ==
    IF s.total_servers > 0
    THEN RoundPercent(s.failed_servers, s.total_servers)
    ELSE s.health_score

\* Lines 463-467: the score is assigned only when total_servers > 0.
HealthScore(s) ==
    IF s.total_servers > 0
    THEN RoundPercent(s.healthy_servers, s.total_servers)
    ELSE s.health_score

\* determineOverallStatus with the warning rule tested before the score
\* rules.
OverallStatusWarningFirst(s) ==
    IF s.failed_servers > s.healthy_servers THEN "critical"
    ELSE IF s.warnings > 3 THEN "warning"
    ELSE IF s.health_score < 50 THEN "degraded"
    ELSE IF s.health_score < 80 THEN "partial"
    ELSE "healthy"

\* determineOverallStatus with the comparison of the last rule inverted.
OverallStatusThresholdInverted(s) ==
    IF s.failed_servers > s.healthy_servers THEN "critical"
    ELSE IF s.health_score < 50 THEN "degraded"
    ELSE IF s.warnings > 3 THEN "warning"
    ELSE IF s.health_score > 80 THEN "partial"
    ELSE "healthy"

\* determineOverallStatus without the partial rule.
OverallStatusNoPartial(s) ==
    IF s.failed_servers > s.healthy_servers THEN "critical"
    ELSE IF s.health_score < 50 THEN "degraded"
    ELSE IF s.warnings > 3 THEN "warning"
    ELSE "healthy"

\* determineOverallStatus with a higher threshold in the degraded rule.
OverallStatusDegradedBelowSixty(s) ==
    IF s.failed_servers > s.healthy_servers THEN "critical"
    ELSE IF s.health_score < 60 THEN "degraded"
    ELSE IF s.warnings > 3 THEN "warning"
    ELSE IF s.health_score < 80 THEN "partial"
    ELSE "healthy"

\* Lines 675-686: the if / else-if chain of determineOverallStatus.
OverallStatus(s) ==
    IF s.failed_servers > s.healthy_servers THEN "critical"
    ELSE IF s.health_score < 50 THEN "degraded"
    ELSE IF s.warnings > 3 THEN "warning"
    ELSE IF s.health_score < 80 THEN "partial"
    ELSE "healthy"

\* Lines 616-668: the recommendation list, in generation order.
HealthRecs(s) ==
    IF s.health_score < 50
    THEN <<[priority |-> "high", category |-> "health"]>>
    ELSE IF s.health_score < 80
    THEN <<[priority |-> "medium", category |-> "health"]>>
    ELSE <<>>

PerformanceRecs(perf) ==
    IF perf = "needs_optimization"
    THEN <<[priority |-> "medium", category |-> "performance"]>>
    ELSE <<>>

WorkflowRecs(wf) ==
    IF wf = "missing"
    THEN <<[priority |-> "medium", category |-> "workflows"]>>
    ELSE <<>>

\* A rule set in which the maintenance item is a fallback, added only when
\* no other rule matched.
RecommendationsMaintenanceIfEmpty(s, perf, wf) ==
    LET found == HealthRecs(s) \o PerformanceRecs(perf) \o WorkflowRecs(wf)
    IN  IF found = <<>>
        THEN <<[priority |-> "low", category |-> "maintenance"]>>
        ELSE found

\* A rule set evaluated like an else-if chain: only the first matching
\* rule contributes, then the maintenance item.
RecommendationsFirstMatchOnly(s, perf, wf) ==
    (IF HealthRecs(s) # <<>> THEN HealthRecs(s)
     ELSE IF PerformanceRecs(perf) # <<>> THEN PerformanceRecs(perf)
     ELSE WorkflowRecs(wf))
    \o <<[priority |-> "low", category |-> "maintenance"]>>

Recommendations(s, perf, wf) ==
    HealthRecs(s) \o PerformanceRecs(perf) \o WorkflowRecs(wf)
    \o <<[priority |-> "low", category |-> "maintenance"]>>

\* Lines 754-763 and 775-779: generateMarkdownReport dereferences
\* server.config.command for every entry of components.mcp_servers and
\* performance.memory_usage.rss_mb whenever components.performance is
\* truthy.  The workflows, packages and system_info sections only read
\* properties of objects that exist (or use ?. and || {}), so they cannot
\* throw.
MarkdownThrows(ms, perf) ==
    \/ \E i \in 1..Len(ms.entries) : ~ms.entries[i].hasConfig
    \/ perf = "error"

\* String.prototype.toUpperCase on a status (lines 742, 828).
UpperCase(st) ==
    CASE st = "healthy" -> "HEALTHY"
      [] st = "partial" -> "PARTIAL"
      [] st = "warning" -> "WARNING"
      [] st = "degraded" -> "DEGRADED"
      [] st = "critical" -> "CRITICAL"
      [] st = "unknown" -> "UNKNOWN"
      [] OTHER -> st

\* Line 706: JSON.stringify(this.results) carries the summary as it is and
\* the artifacts list as it is when the document is serialized.  `run` tags
\* the call that produced a document.
JsonDocument(n, s, arts) ==
    [run |-> n, overall_status |-> s.overall_status,
     health_score |-> s.health_score, artifacts |-> arts]

\* Lines 742-743: the Markdown report prints the status in upper case and
\* the score; it does not list the artifacts.
MarkdownDocument(n, s) ==
    [run |-> n, overall_status |-> UpperCase(s.overall_status),
     health_score |-> s.health_score, artifacts |-> <<>>]

\* Lines 828-829: the summary prints the status in upper case and the
\* score.
SummaryDocument(n, s) ==
    [run |-> n, overall_status |-> UpperCase(s.overall_status),
     health_score |-> s.health_score, artifacts |-> <<>>]

\* ---------------------------------------------------------------- helpers
Warn(s) == [s EXCEPT !.warnings = @ + 1]

\* The promise of generateFullReport rejects (lines 860-863 rethrow).
Reject ==
    /\ outcome' = "rejected"
    /\ pc' = "settled"

\* A CLI entry that also fails the process when the fleet is critical.
ExitCodeForFleet(o) ==
    IF o = "resolved" /\ summary.overall_status # "critical" THEN 0 ELSE 1

\* Exit code chosen by the CLI entry (lines 870-875): .then exits 0,
\* .catch exits 1.
ExitCodeFor(o) == IF o = "resolved" THEN 0 ELSE 1

\* ---------------------------------------------------------------- actions
\* generateFullReport is entered (line 841): the call counts, its promise
\* is pending, and the locals and the history of the call start empty.
EnterFullReport ==
    /\ exitCode = -1
    /\ calls' = calls + 1
    /\ outcome' = "pending"
    /\ pc' = "initialize"
    /\ servers' = 0
    /\ registry' = <<>>
    /\ idx' = 0
    /\ serverResults' = <<>>
    /\ probeLog' = <<>>
    /\ failedSteps' = {}
    /\ ioFailed' = {}
    /\ attempted' = {}
    /\ UNCHANGED <<notReporterVars, exitCode, resultsVars, files>>

\* The first call on a freshly constructed object (lines 869-870).
GenerateFullReport ==
    /\ pc = "idle"
    /\ calls = 0
    /\ EnterFullReport

\* A second call on the same object, made by a script that uses the
\* exported class (line 878) and, having received a report from the first
\* call, asks for another.
GenerateFullReportAgain ==
    /\ pc = "settled"
    /\ outcome = "resolved"
    /\ calls = 1
    /\ EnterFullReport

\* initialize (lines 351-364): the two mkdir calls; a failure propagates.
Initialize(ok) ==
    /\ pc = "initialize"
    /\ IF ok
       THEN /\ pc' = "collectSystemInfo"
            /\ UNCHANGED <<outcome, ioFailed>>
       ELSE /\ Reject
            /\ ioFailed' = ioFailed \cup {"mkdir"}
    /\ UNCHANGED <<notReporterVars, procVars, resultsVars, loopVars, files, failedSteps,
                   attempted>>

\* collectSystemInfo (lines 366-404).
CollectSystemInfo(ok) ==
    /\ pc = "collectSystemInfo"
    /\ pc' = "collectMCPServerStatus"
    /\ IF ok
       THEN /\ system_info' = "collected"
            /\ UNCHANGED <<summary, failedSteps>>
       ELSE /\ summary' = Warn(summary)
            /\ failedSteps' = failedSteps \cup {"system_info"}
            /\ UNCHANGED system_info
    /\ UNCHANGED <<notReporterVars, procVars, outcome, mcp_servers, workflows, packages,
                   performance, recommendations, artifacts, loopVars, files,
                   ioFailed, attempted>>

\* Lines 460-467: after the loop, publish the results and compute the score.
FinishServerStatus(s, rs) ==
    /\ mcp_servers' = [defined |-> TRUE, entries |-> rs]
    /\ summary' = [s EXCEPT !.health_score = HealthScore(s)]
    /\ pc' = "collectWorkflowStatus"

\* collectMCPServerStatus up to the first probe (lines 409-418): require
\* the manager and read the registry, whose entries iterate in order reg.
ReadRegistry(reg) ==
    /\ pc = "collectMCPServerStatus"
    /\ servers' = Len(reg)
    /\ registry' = reg
    /\ serverResults' = <<>>
    /\ LET s == [summary EXCEPT !.total_servers = Len(reg)] IN
       IF reg = <<>>
       THEN /\ FinishServerStatus(s, <<>>)
            /\ idx' = 0
       ELSE /\ summary' = s
            /\ idx' = 1
            /\ pc' = "probeHealth"
            /\ UNCHANGED mcp_servers
    /\ UNCHANGED <<notReporterVars, procVars, outcome, system_info, workflows, packages,
                   performance, recommendations, artifacts, files, probeLog,
                   failedSteps, ioFailed, attempted>>

\* The registry of n services, iterated in the order of ServerNames.
ReadServers(n) == ReadRegistry(SubSeq(ServerNames, 1, n))

\* The outer catch of collectMCPServerStatus (lines 471-475): requiring the
\* manager or readServers threw.
ReadServersFails ==
    /\ pc = "collectMCPServerStatus"
    /\ mcp_servers' = [defined |-> TRUE, entries |-> <<ErrorEntry>>]
    /\ summary' = Warn(summary)
    /\ failedSteps' = failedSteps \cup {"registry"}
    /\ pc' = "collectWorkflowStatus"
    /\ UNCHANGED <<notReporterVars, procVars, outcome, system_info, workflows, packages,
                   performance, recommendations, artifacts, loopVars, files,
                   ioFailed, attempted>>

\* A loop that files each result under the name at its position in the
\* default order instead of under the name it probed.
RecordServerResultByPosition(s, entry, o) ==
    /\ serverResults' =
           Append(serverResults, [entry EXCEPT !.name = ServerNames[idx]])
    /\ probeLog' = Append(probeLog, o)
    /\ IF idx = servers
       THEN /\ FinishServerStatus(s,
                   Append(serverResults,
                          [entry EXCEPT !.name = ServerNames[idx]]))
            /\ idx' = idx
       ELSE /\ summary' = s
            /\ idx' = idx + 1
            /\ pc' = pc
            /\ UNCHANGED mcp_servers
    /\ UNCHANGED <<notReporterVars, servers, registry, procVars, outcome,
                   system_info, workflows, packages, performance,
                   recommendations, artifacts, files, failedSteps, ioFailed,
                   attempted>>

\* One iteration of the for loop, from the resumption after
\* `await mcpManager.probeHealth` to the next await (lines 440-458), and the
\* code after the loop when this was the last entry.
RecordServerResult(s, entry, o) ==
    /\ serverResults' = Append(serverResults, entry)
    /\ probeLog' = Append(probeLog, o)
    /\ IF idx = servers
       THEN /\ FinishServerStatus(s, Append(serverResults, entry))
            /\ idx' = idx
       ELSE /\ summary' = s
            /\ idx' = idx + 1
            /\ pc' = pc
            /\ UNCHANGED mcp_servers
    /\ UNCHANGED <<notReporterVars, servers, registry, procVars, outcome, system_info, workflows,
                   packages, performance, recommendations, artifacts, files,
                   failedSteps, ioFailed, attempted>>

\* The probe resolved with isHealthy (lines 442-449).
ProbeResolves(isHealthy) ==
    /\ pc = "probeHealth"
    /\ IF isHealthy
       THEN RecordServerResult(
                [summary EXCEPT !.healthy_servers = @ + 1],
                ServerEntry(registry[idx], "healthy", "null"),
                [kind |-> "true", msg |-> "null"])
       ELSE RecordServerResult(
                [summary EXCEPT !.failed_servers = @ + 1],
                ServerEntry(registry[idx], "unhealthy",
                            "Health check failed"),
                [kind |-> "false", msg |-> "null"])

\* A loop without the inner try/catch: the exception of the probe reaches
\* the outer catch of collectMCPServerStatus and ends the sweep.
ProbeRejectsAbortsSweep(msg) ==
    /\ pc = "probeHealth"
    /\ probeLog' = Append(probeLog, [kind |-> "throw", msg |-> msg])
    /\ mcp_servers' = [defined |-> TRUE, entries |-> <<ErrorEntry>>]
    /\ summary' = Warn(summary)
    /\ pc' = "collectWorkflowStatus"
    /\ UNCHANGED <<notReporterVars, servers, registry, idx, serverResults, procVars, outcome,
                   system_info, workflows, packages, performance,
                   recommendations, artifacts, files, failedSteps, ioFailed,
                   attempted>>

\* The probe threw (lines 451-455).
ProbeRejects(msg) ==
    /\ pc = "probeHealth"
    /\ RecordServerResult(
           [summary EXCEPT !.failed_servers = @ + 1],
           ServerEntry(registry[idx], "error", msg),
           [kind |-> "throw", msg |-> msg])

\* collectWorkflowStatus (lines 478-519): readdir fails, or the required
\* workflows are all present ("complete") or not ("missing").
CollectWorkflowStatus(r) ==
    /\ pc = "collectWorkflowStatus"
    /\ pc' = "collectPackageStatus"
    /\ workflows' = r
    /\ IF r = "error"
       THEN /\ summary' = Warn(summary)
            /\ failedSteps' = failedSteps \cup {"workflows"}
       ELSE UNCHANGED <<summary, failedSteps>>
    /\ UNCHANGED <<notReporterVars, procVars, outcome, system_info, mcp_servers, packages,
                   performance, recommendations, artifacts, loopVars, files,
                   ioFailed, attempted>>

\* collectPackageStatus (lines 521-564).
CollectPackageStatus(ok) ==
    /\ pc = "collectPackageStatus"
    /\ pc' = "collectPerformanceMetrics"
    /\ IF ok
       THEN /\ packages' = "collected"
            /\ UNCHANGED <<summary, failedSteps>>
       ELSE /\ packages' = "error"
            /\ summary' = Warn(summary)
            /\ failedSteps' = failedSteps \cup {"packages"}
    /\ UNCHANGED <<notReporterVars, procVars, outcome, system_info, mcp_servers, workflows,
                   performance, recommendations, artifacts, loopVars, files,
                   ioFailed, attempted>>

\* Lines 594-601: the rating of the configuration load time.
ConfigPerformance(t) ==
    IF t = "lt1000" THEN "excellent"
    ELSE IF t = "lt3000" THEN "good"
    ELSE "needs_optimization"

\* collectPerformanceMetrics, try branch (lines 569-604).
CollectPerformanceMetrics(t) ==
    /\ pc = "collectPerformanceMetrics"
    /\ pc' = "generateRecommendations"
    /\ performance' = ConfigPerformance(t)
    /\ summary' = IF ConfigPerformance(t) = "needs_optimization"
                  THEN Warn(summary) ELSE summary
    /\ UNCHANGED <<notReporterVars, procVars, outcome, system_info, mcp_servers, workflows,
                   packages, recommendations, artifacts, loopVars, files,
                   failedSteps, ioFailed, attempted>>

\* collectPerformanceMetrics, catch branch (lines 606-610).
CollectPerformanceMetricsFails ==
    /\ pc = "collectPerformanceMetrics"
    /\ pc' = "generateRecommendations"
    /\ performance' = "error"
    /\ summary' = Warn(summary)
    /\ failedSteps' = failedSteps \cup {"performance"}
    /\ UNCHANGED <<notReporterVars, procVars, outcome, system_info, mcp_servers, workflows,
                   packages, recommendations, artifacts, loopVars, files,
                   ioFailed, attempted>>

\* A generateRecommendations that counts a warning for every finding it
\* reports besides the maintenance item.
GenerateRecommendationsCountsWarning ==
    /\ pc = "generateRecommendations"
    /\ pc' = "determineOverallStatus"
    /\ recommendations' = Recommendations(summary, performance, workflows)
    /\ summary' = [summary EXCEPT
                       !.warnings = @ + Len(recommendations') - 1]
    /\ UNCHANGED <<notReporterVars, procVars, outcome, system_info, mcp_servers,
                   workflows, packages, performance, artifacts, loopVars,
                   files, failedSteps, ioFailed, attempted>>

\* generateRecommendations (lines 613-672).
GenerateRecommendations ==
    /\ pc = "generateRecommendations"
    /\ pc' = "determineOverallStatus"
    /\ recommendations' = Recommendations(summary, performance, workflows)
    /\ UNCHANGED <<notReporterVars, procVars, outcome, summary, system_info, mcp_servers,
                   workflows, packages, performance, artifacts, loopVars,
                   files, failedSteps, ioFailed, attempted>>

\* A generateFullReport that goes on to generateReports without having
\* called determineOverallStatus.
DetermineOverallStatusSkipped ==
    /\ pc = "determineOverallStatus"
    /\ pc' = "writeJson"
    /\ UNCHANGED <<notReporterVars, procVars, outcome, summary, system_info, mcp_servers,
                   workflows, packages, performance, recommendations,
                   artifacts, loopVars, files, failedSteps, ioFailed,
                   attempted>>

\* determineOverallStatus (lines 674-699), then generateReports issues the
\* first write.
DetermineOverallStatus ==
    /\ pc = "determineOverallStatus"
    /\ pc' = "writeJson"
    /\ summary' = [summary EXCEPT !.overall_status = OverallStatus(summary)]
    /\ UNCHANGED <<notReporterVars, procVars, outcome, system_info, mcp_servers, workflows,
                   packages, performance, recommendations, artifacts,
                   loopVars, files, failedSteps, ioFailed, attempted>>

\* The file operations of generateReports in program order, and the step
\* that follows each.
WriteOrder == <<"run/json", "run/md", "run/summary", "root/json", "root/md">>

StepAfter(op) ==
    CASE op = "run/json" -> "writeMarkdown"
      [] op = "run/md" -> "writeSummary"
      [] op = "run/summary" -> "copyJson"
      [] op = "root/json" -> "copyMarkdown"
      [] OTHER -> "settled"

\* A generateReports that catches the failure of a file operation, logs it
\* and goes on with the next one.
PersistenceFailsLogged(op) ==
    /\ ioFailed' = ioFailed \cup {op}
    /\ pc' = StepAfter(op)
    /\ outcome' = IF StepAfter(op) = "settled" THEN "resolved" ELSE outcome
    /\ UNCHANGED <<files, artifacts>>

\* A file operation of generateReports failed: nothing catches it inside
\* generateReports, so the rejection reaches generateFullReport's catch,
\* which rethrows.
PersistenceFails(op) ==
    /\ Reject
    /\ ioFailed' = ioFailed \cup {op}
    /\ UNCHANGED <<files, artifacts>>

\* Lines 705-709: the JSON write completes; then the Markdown text is built,
\* which can throw, and the Markdown write is issued.
WriteJsonReport(ok) ==
    /\ pc = "writeJson"
    /\ attempted' = attempted \cup {"run/json"}
    /\ IF ok
       THEN /\ files' = [files EXCEPT
                            !["run/json"] =
                                JsonDocument(calls, summary, artifacts)]
            /\ IF MarkdownThrows(mcp_servers, performance)
               THEN Reject
               ELSE /\ pc' = "writeMarkdown"
                    /\ UNCHANGED outcome
            /\ UNCHANGED <<ioFailed, artifacts>>
       ELSE PersistenceFails("run/json")
    /\ UNCHANGED <<notReporterVars, procVars, summary, system_info, mcp_servers, workflows,
                   packages, performance, recommendations, loopVars,
                   failedSteps>>

\* Lines 710-714.
WriteMarkdownReport(ok) ==
    /\ pc = "writeMarkdown"
    /\ attempted' = attempted \cup {"run/md"}
    /\ IF ok
       THEN /\ files' = [files EXCEPT
                            !["run/md"] = MarkdownDocument(calls, summary)]
            /\ pc' = "writeSummary"
            /\ UNCHANGED <<outcome, ioFailed, artifacts>>
       ELSE PersistenceFails("run/md")
    /\ UNCHANGED <<notReporterVars, procVars, summary, system_info, mcp_servers, workflows,
                   packages, performance, recommendations, loopVars,
                   failedSteps>>

\* Lines 715-726.
WriteSummaryReport(ok) ==
    /\ pc = "writeSummary"
    /\ attempted' = attempted \cup {"run/summary"}
    /\ IF ok
       THEN /\ files' = [files EXCEPT
                            !["run/summary"] = SummaryDocument(calls, summary)]
            /\ artifacts' = <<"run/json", "run/md", "run/summary">>
            /\ pc' = "copyJson"
            /\ UNCHANGED <<outcome, ioFailed>>
       ELSE PersistenceFails("run/summary")
    /\ UNCHANGED <<notReporterVars, procVars, summary, system_info, mcp_servers, workflows,
                   packages, performance, recommendations, loopVars,
                   failedSteps>>

\* Lines 726-727.
CopyJsonReport(ok) ==
    /\ pc = "copyJson"
    /\ attempted' = attempted \cup {"root/json"}
    /\ IF ok
       THEN /\ files' = [files EXCEPT !["root/json"] = files["run/json"]]
            /\ pc' = "copyMarkdown"
            /\ UNCHANGED <<outcome, ioFailed, artifacts>>
       ELSE PersistenceFails("root/json")
    /\ UNCHANGED <<notReporterVars, procVars, summary, system_info, mcp_servers, workflows,
                   packages, performance, recommendations, loopVars,
                   failedSteps>>

\* Line 727, then lines 853-858: generateFullReport returns this.results.
CopyMarkdownReport(ok) ==
    /\ pc = "copyMarkdown"
    /\ attempted' = attempted \cup {"root/md"}
    /\ IF ok
       THEN /\ files' = [files EXCEPT !["root/md"] = files["run/md"]]
            /\ outcome' = "resolved"
            /\ pc' = "settled"
            /\ UNCHANGED <<ioFailed, artifacts>>
       ELSE PersistenceFails("root/md")
    /\ UNCHANGED <<notReporterVars, procVars, summary, system_info, mcp_servers, workflows,
                   packages, performance, recommendations, loopVars,
                   failedSteps>>

\* The CLI entry (lines 868-876).
CliExit ==
    /\ pc = "settled"
    /\ calls = 1
    /\ exitCode = -1
    /\ exitCode' = ExitCodeFor(outcome)
    /\ UNCHANGED <<notReporterVars, pc, calls, outcome, resultsVars, loopVars,
                   files, failedSteps, ioFailed, attempted>>

Next ==
    \/ GenerateFullReport
    \/ \E ok \in BOOLEAN : Initialize(ok)
    \/ \E ok \in BOOLEAN : CollectSystemInfo(ok)
    \/ \E n \in 0..MaxServers : ReadServers(n)
    \/ ReadServersFails
    \/ \E b \in BOOLEAN : ProbeResolves(b)
    \/ \E m \in ProbeMessages : ProbeRejects(m)
    \/ \E r \in {"complete", "missing", "error"} : CollectWorkflowStatus(r)
    \/ \E ok \in BOOLEAN : CollectPackageStatus(ok)
    \/ \E t \in LoadTimes : CollectPerformanceMetrics(t)
    \/ CollectPerformanceMetricsFails
    \/ GenerateRecommendations
    \/ DetermineOverallStatus
    \/ \E ok \in BOOLEAN : WriteJsonReport(ok)
    \/ \E ok \in BOOLEAN : WriteMarkdownReport(ok)
    \/ \E ok \in BOOLEAN : WriteSummaryReport(ok)
    \/ \E ok \in BOOLEAN : CopyJsonReport(ok)
    \/ \E ok \in BOOLEAN : CopyMarkdownReport(ok)
    \/ CliExit

Spec == Init /\ [][Next]_vars

NextReuse ==
    \/ Next
    \/ GenerateFullReportAgain

SpecReuse == Init /\ [][NextReuse]_vars

\* The aggregation of generateFullReport, up to and including
\* determineOverallStatus, over every iteration order of the registry: the
\* first n names in any order (Object.entries follows the insertion order of
\* the registry file).
RegistryOrders ==
    UNION {{reg \in [1..n -> {ServerNames[i] : i \in 1..n}] :
                \A i, j \in 1..n : reg[i] = reg[j] => i = j}
           : n \in 0..MaxServers}

NextSweep ==
    \/ GenerateFullReport
    \/ \E ok \in BOOLEAN : Initialize(ok)
    \/ \E ok \in BOOLEAN : CollectSystemInfo(ok)
    \/ \E reg \in RegistryOrders : ReadRegistry(reg)
    \/ ReadServersFails
    \/ \E b \in BOOLEAN : ProbeResolves(b)
    \/ \E m \in ProbeMessages : ProbeRejects(m)
    \/ \E r \in {"complete", "missing", "error"} : CollectWorkflowStatus(r)
    \/ \E ok \in BOOLEAN : CollectPackageStatus(ok)
    \/ \E t \in LoadTimes : CollectPerformanceMetrics(t)
    \/ CollectPerformanceMetricsFails
    \/ GenerateRecommendations
    \/ DetermineOverallStatus

SpecSweep == Init /\ [][NextSweep]_vars

\* ------------------------------------------------------------ the prober
\* probeHealth of mcp-manager.js: request the endpoint; on failure wait
\* pollIntervalMs and retry, until a request succeeds or the elapsed time
\* exceeds timeoutMs.

\* A call probeHealth(url, p.timeoutMs, p.pollIntervalMs) to an endpoint that
\* succeeds from elapsed time r on.
InitProbe ==
    /\ InitReporter
    /\ \E p \in ProbePolicies : \E r \in ReadyTimes :
           probe = [timeoutMs |-> p.timeoutMs,
                    pollIntervalMs |-> p.pollIntervalMs,
                    readyAt |-> r, elapsed |-> 0, times |-> <<>>,
                    result |-> "pending"]
    /\ tester = NewTester
    /\ oauth = NewServer
    /\ readme = NoReadme
    /\ agent = NoAgent

\* One attempt, made while the elapsed time is within timeoutMs, taking d ms:
\* it succeeds and the probe returns true, or it fails and the probe waits
\* pollIntervalMs.
ProbeAttempt(d) ==
    /\ probe.result = "pending"
    /\ probe.elapsed <= probe.timeoutMs
    /\ probe' = [probe EXCEPT
           !.times = Append(@, probe.elapsed),
           !.elapsed = IF probe.elapsed >= probe.readyAt
                       THEN @ + d
                       ELSE @ + d + probe.pollIntervalMs,
           !.result = IF probe.elapsed >= probe.readyAt
                      THEN "true" ELSE "pending"]
    /\ UNCHANGED <<reporterVars, overlapVars, tester, oauth, readme, agent>>

\* The elapsed time exceeds timeoutMs: the probe returns false.
ProbeGivesUp ==
    /\ probe.result = "pending"
    /\ probe.elapsed > probe.timeoutMs
    /\ probe' = [probe EXCEPT !.result = "false"]
    /\ UNCHANGED <<reporterVars, overlapVars, tester, oauth, readme, agent>>

NextProbe ==
    \/ \E d \in RequestMs : ProbeAttempt(d)
    \/ ProbeGivesUp

SpecProbe == InitProbe /\ [][NextProbe]_vars

\* ------------------------------------------------------ MCPWorkflowTester
\* The tester program (lines 11-314): the CLI entry constructs a tester and
\* calls runFullTest.  The seven test methods catch their own errors; what
\* they do to the tester is the sequence of their log calls.

LogTypes == {"info", "pass", "fail", "warn"}

\* log(message, type) (lines 21-40).
Log(t, type) ==
    [t EXCEPT !.tests = Append(@, type),
              !.passed = IF type = "pass" THEN @ + 1 ELSE @,
              !.failed = IF type = "fail" THEN @ + 1 ELSE @,
              !.warnings = IF type = "warn" THEN @ + 1 ELSE @]

\* Line 249: the score of the report.
TestScore(passed, failed) ==
    IF passed + failed > 0 THEN RoundPercent(passed, passed + failed) ELSE 0

\* A report whose status takes warnings for failures.
TestStatusNoWarnings(t) ==
    IF t.failed = 0 /\ t.warnings = 0 THEN "passed" ELSE "failed"

\* Line 261: the status of the report.
TestStatus(t) == IF t.failed = 0 THEN "passed" ELSE "failed"

\* The CLI entry calls runFullTest, which logs its first line (lines 281,
\* 304-305).
RunFullTest ==
    /\ tester.pc = "idle"
    /\ tester' = [Log(tester, "info") EXCEPT !.pc = "tests",
                                              !.returned = "pending"]
    /\ UNCHANGED <<reporterVars, overlapVars, probe, oauth, readme, agent>>

\* A log call of one of the test methods (lines 283-289).
TestLogs(type) ==
    /\ tester.pc = "tests"
    /\ Len(tester.tests) <= MaxLogs
    /\ tester' = Log(tester, type)
    /\ UNCHANGED <<reporterVars, overlapVars, probe, oauth, readme, agent>>

\* generateTestReport up to its await (lines 248-268): the report is built
\* and the write of the results file is issued.
BuildTestReport ==
    /\ tester.pc = "tests"
    /\ tester' = [tester EXCEPT
           !.pc = "writeResults",
           !.report = [written |-> FALSE,
                       total_tests |-> Len(tester.tests),
                       passed |-> tester.passed,
                       failed |-> tester.failed,
                       warnings |-> tester.warnings,
                       score |-> TestScore(tester.passed, tester.failed),
                       status |-> TestStatus(tester)]]
    /\ UNCHANGED <<reporterVars, overlapVars, probe, oauth, readme, agent>>

\* The five summary lines of generateTestReport (lines 270-275).
SummaryLogs(t) ==
    LET score == TestScore(t.passed, t.failed)
        t1 == Log(Log(t, "info"), "info")
        t2 == Log(t1, IF t.passed > 0 THEN "pass" ELSE "info")
        t3 == Log(t2, IF t.failed > 0 THEN "fail" ELSE "info")
        t4 == Log(t3, IF t.warnings > 0 THEN "warn" ELSE "info")
    IN  Log(t4, IF score >= 80 THEN "pass"
                ELSE IF score >= 60 THEN "warn" ELSE "fail")

\* The write of the results file settles (lines 265-268).  Written: the
\* summary is logged, the report returned, and runFullTest logs its verdict
\* and returns (lines 270-300).  Failed: generateTestReport and runFullTest
\* reject.
WriteTestResults(ok) ==
    /\ tester.pc = "writeResults"
    /\ IF ok
       THEN LET t == SummaryLogs(tester) IN
            tester' = [Log(t, IF tester.report.status = "passed"
                              THEN "pass" ELSE "warn")
                       EXCEPT !.pc = "settled",
                              !.report.written = TRUE,
                              !.returned = IF tester.report.status = "passed"
                                           THEN "true" ELSE "false"]
       ELSE tester' = [tester EXCEPT !.pc = "settled",
                                     !.returned = "rejected"]
    /\ UNCHANGED <<reporterVars, overlapVars, probe, oauth, readme, agent>>

\* The CLI entry (lines 306-312): exit 0 on true, 1 on false or rejection.
TesterCliExit ==
    /\ tester.pc = "settled"
    /\ tester' = [tester EXCEPT
           !.pc = "exited",
           !.exitCode = IF tester.returned = "true" THEN 0 ELSE 1]
    /\ UNCHANGED <<reporterVars, overlapVars, probe, oauth, readme, agent>>

NextTester ==
    \/ RunFullTest
    \/ \E type \in LogTypes : TestLogs(type)
    \/ BuildTestReport
    \/ \E ok \in BOOLEAN : WriteTestResults(ok)
    \/ TesterCliExit

SpecTester == Init /\ [][NextTester]_vars

\* ------------------------------------------------------- the OAuth flow
\* server.js: GET /auth/spotify and GET /auth/callback on the authStates
\* map of one server process.  A handler runs to its first await without
\* interleaving; the token exchange of a callback is in flight between the
\* callback's acceptance and its settling.

\* Five minutes pass.
Tick ==
    /\ oauth.now < MaxClock
    /\ oauth' = [oauth EXCEPT !.now = @ + 5]
    /\ UNCHANGED <<reporterVars, overlapVars, probe, tester, readme, agent>>

\* Lines 254-260: delete the entries older than ten minutes.
CleanUp(states, now) ==
    [v \in StateValues |->
        IF states[v] # -1 /\ states[v] < now - TenMinutes
        THEN -1 ELSE states[v]]

\* GET /auth/spotify without configured credentials (lines 237-242).
AuthSpotifyUnconfigured ==
    /\ oauth' = [oauth EXCEPT
           !.request = [path |-> "/auth/spotify", state |-> "none"],
           !.response = "500"]
    /\ UNCHANGED <<reporterVars, overlapVars, probe, tester, readme, agent>>

\* GET /auth/spotify (lines 244-272): draw a state, store it with the
\* current time, clean up, redirect to the authorize URL.
AuthSpotify(v) ==
    /\ oauth.issued["a1b2"] + oauth.issued["c3d4"] < MaxIssues
    /\ oauth' = [oauth EXCEPT
           !.authStates = CleanUp([@ EXCEPT ![v] = oauth.now], oauth.now),
           !.issued[v] = @ + 1,
           !.request = [path |-> "/auth/spotify", state |-> v],
           !.response = "authorize"]
    /\ UNCHANGED <<reporterVars, overlapVars, probe, tester, readme, agent>>

\* GET /auth/callback with an error parameter, or without code or state
\* (lines 276-285).
AuthCallbackRefused(v, why) ==
    /\ oauth' = [oauth EXCEPT
           !.request = [path |-> "/auth/callback", state |-> v],
           !.response = why]
    /\ UNCHANGED <<reporterVars, overlapVars, probe, tester, readme, agent>>

\* A callback that starts the token exchange whether or not the state is
\* stored, and leaves the map alone.
AuthCallbackUnverified(v) ==
    /\ oauth.exchanges[v] < MaxIssues
    /\ oauth' = [oauth EXCEPT
           !.request = [path |-> "/auth/callback", state |-> v],
           !.response = "pending",
           !.exchanges[v] = @ + 1,
           !.inflight[v] = @ + 1,
           !.oldest = IF oauth.now - oauth.authStates[v] > @
                      THEN oauth.now - oauth.authStates[v] ELSE @]
    /\ UNCHANGED <<reporterVars, overlapVars, probe, tester, readme, agent>>

\* GET /auth/callback with code and state (lines 287-310): a state that is
\* not stored is answered state_mismatch; a stored one is deleted and the
\* token exchange is started.
AuthCallback(v) ==
    /\ IF oauth.authStates[v] = -1
       THEN oauth' = [oauth EXCEPT
                !.request = [path |-> "/auth/callback", state |-> v],
                !.response = "state_mismatch"]
       ELSE oauth' = [oauth EXCEPT
                !.request = [path |-> "/auth/callback", state |-> v],
                !.response = "pending",
                !.authStates[v] = -1,
                !.exchanges[v] = @ + 1,
                !.inflight[v] = @ + 1,
                !.oldest = IF oauth.now - oauth.authStates[v] > @
                           THEN oauth.now - oauth.authStates[v] ELSE @]
    /\ UNCHANGED <<reporterVars, overlapVars, probe, tester, readme, agent>>

\* The token exchange and profile request of an accepted callback settle
\* (lines 312-343): redirect with success or with token_exchange_failed.
ExchangeSettles(v, ok) ==
    /\ oauth.inflight[v] > 0
    /\ oauth' = [oauth EXCEPT
           !.inflight[v] = @ - 1,
           !.request = [path |-> "/auth/callback", state |-> v],
           !.response = IF ok THEN "success" ELSE "token_exchange_failed"]
    /\ UNCHANGED <<reporterVars, overlapVars, probe, tester, readme, agent>>

NextOAuth ==
    \/ Tick
    \/ AuthSpotifyUnconfigured
    \/ \E v \in StateValues : AuthSpotify(v)
    \/ \E v \in StateValues :
           \E why \in {"access_denied", "invalid_request"} :
               AuthCallbackRefused(v, why)
    \/ \E v \in StateValues : AuthCallback(v)
    \/ \E v \in StateValues : \E ok \in BOOLEAN : ExchangeSettles(v, ok)

SpecOAuth == Init /\ [][NextOAuth]_vars

\* -------------------------------------------------- updateReadmeProgress
\* continuous-agent.js, lines 311-345, on texts as sequences of pieces.

\* Index of the first occurrence of pat in text at or after i, 0 if none.
RECURSIVE IndexFrom(_, _, _)
IndexFrom(text, pat, i) ==
    IF i + Len(pat) - 1 > Len(text) THEN 0
    ELSE IF SubSeq(text, i, i + Len(pat) - 1) = pat THEN i
    ELSE IndexFrom(text, pat, i + 1)

\* String.prototype.includes.
Includes(text, pat) == IndexFrom(text, pat, 1) # 0

\* String.prototype.split with a non-empty separator: the parts.
RECURSIVE Split(_, _)
Split(text, pat) ==
    LET i == IndexFrom(text, pat, 1) IN
    IF i = 0 THEN <<text>>
    ELSE <<SubSeq(text, 1, i - 1)>>
         \o Split(SubSeq(text, i + Len(pat), Len(text)), pat)

\* Array.prototype.join.
RECURSIVE Join(_, _)
Join(parts, pat) ==
    IF parts = <<>> THEN <<>>
    ELSE IF Len(parts) = 1 THEN parts[1]
    ELSE parts[1] \o pat \o Join(Tail(parts), pat)

\* The text of the cycle line, of the task list and of the closing line
\* written by the k-th call.
CycleLines == <<"cycle1", "cycle2", "cycle3", "cycle4", "cycle5">>
TaskLists == <<"tasks1", "tasks2", "tasks3", "tasks4", "tasks5">>
UpdatedLines == <<"updated1", "updated2", "updated3", "updated4", "updated5">>

\* Lines 319-323: '\n## marker\n\n**Cycle k**...\n\n### Current Tasks...
\* \n\n*Last updated...*\n'.
ProgressSection(k) ==
    <<"n", "M", "n", "n", CycleLines[k], "n", "n", "##", "#", TaskLists[k],
      "n", "n", UpdatedLines[k], "n">>

\* Lines 325-338: replace the existing progress section, or append one.
ReplaceProgress(text, k) ==
    IF Includes(text, <<"M">>)
    THEN LET sections == Split(text, <<"M">>)
             beforeProgress == sections[1]
             rest == Split(sections[2], <<"n", "##">>)
             remainingContent ==
                 IF sections[2] # <<>>
                 THEN <<"n", "##">> \o Join(Tail(rest), <<"n", "##">>)
                 ELSE <<>>
         IN  beforeProgress \o ProgressSection(k) \o remainingContent
    ELSE text \o ProgressSection(k)

\* A README the agent is about to work on.
InitReadme ==
    /\ InitReporter
    /\ probe = NoProbe
    /\ tester = NewTester
    /\ oauth = NewServer
    /\ \E r \in Readmes : readme = [initial |-> r, content |-> r, calls |-> 0]
    /\ agent = NoAgent

\* updateReadmeProgress (lines 311-345): read, replace or append, write; a
\* failing read or write is logged and leaves the README as it was.
UpdateReadmeProgress(ok) ==
    /\ readme.calls < MaxUpdates
    /\ readme' = [readme EXCEPT
           !.calls = @ + 1,
           !.content = IF ok THEN ReplaceProgress(@, readme.calls + 1) ELSE @]
    /\ UNCHANGED <<reporterVars, overlapVars, probe, tester, oauth, agent>>

NextReadme == \E ok \in BOOLEAN : UpdateReadmeProgress(ok)

SpecReadme == InitReadme /\ [][NextReadme]_vars

\* -------------------------------------------------- ContinuousAgent
\* continuous-agent.js: every await of run is a step of its own, so that
\* runs started on the same working directory interleave at the awaits.

Modes == {"full", "analyze", "create-issue"}

InitAgent ==
    /\ InitReporter
    /\ probe = NoProbe
    /\ tester = NewTester
    /\ oauth = NewServer
    /\ readme = [initial |-> <<"title", "n", "intro">>,
                 content |-> <<"title", "n", "intro">>, calls |-> 0]
    /\ agent = NoAgent

notAgentVars == <<reporterVars, overlapVars, probe, tester, oauth>>

\* The run r continues as the record run.
Continue(r, run) ==
    /\ agent' = [agent EXCEPT !.runs[r] = run]
    /\ UNCHANGED <<notAgentVars, readme>>

\* The run r writes the status file and continues as the record run.
Save(r, status, run) ==
    /\ agent' = [agent EXCEPT !.file = status, !.runs[r] = run]
    /\ UNCHANGED <<notAgentVars, readme>>

\* An await inside the try block of run rejected: control moves to the catch
\* block (line 487).
Caught(run) == [run EXCEPT !.pc = "catchLoad", !.thrown = TRUE]

\* The process of a run ends.
Ended(run, how, code, file) ==
    [run EXCEPT !.pc = "done", !.outcome = how, !.exitCode = code,
                !.final = file]

\* CLI handling (lines 506-511) and the constructor (lines 19-31): a process
\* is started with a mode and with or without a token, and calls run.
AgentRun(r, mode, token) ==
    /\ agent.runs[r].pc = "idle"
    /\ Continue(r, [agent.runs[r] EXCEPT
           !.pc = "loadConfig", !.mode = mode, !.githubToken = token,
           !.errorsBefore = agent.file.errors])

\* Lines 441-446: loadConfig; a disabled agent returns.
LoadConfig(r, ok, enabled, auto) ==
    LET run == agent.runs[r] IN
    /\ run.pc = "loadConfig"
    /\ Continue(r,
           IF ~ok THEN Caught(run)
           ELSE LET cfg == [run EXCEPT !.loaded = TRUE, !.enabled = enabled,
                                       !.auto_create_pr = auto]
                IN  IF enabled THEN [cfg EXCEPT !.pc = "incrementLoad"]
                    ELSE Ended(cfg, "disabled", 0, agent.file))

\* incrementCycle, line 429: loadStatus.
IncrementCycleLoad(r, ok) ==
    LET run == agent.runs[r] IN
    /\ run.pc = "incrementLoad"
    /\ Continue(r, IF ok
                   THEN [run EXCEPT !.pc = "incrementSave",
                                    !.status = agent.file]
                   ELSE Caught(run))

\* incrementCycle, lines 430-433: the cycle of the loaded object plus one is
\* saved and returned; then run decides whether to analyse (lines 452-455).
IncrementCycleSave(r, ok) ==
    LET run == agent.runs[r]
        status == [run.status EXCEPT !.cycle = @ + 1]
    IN
    /\ run.pc = "incrementSave"
    /\ IF ok
       THEN Save(r, status,
                 [run EXCEPT !.status = status, !.cycle = status.cycle,
                      !.pc = IF run.mode \in {"full", "analyze"}
                             THEN "analyzeLastPR" ELSE "generateTasks"])
       ELSE Continue(r, Caught(run))

\* analyzeLastPR (lines 62-130): an analysis, or null when there is no merge
\* commit or anything inside failed.
AnalyzeLastPR(r, found) ==
    LET run == agent.runs[r] IN
    /\ run.pc = "analyzeLastPR"
    /\ Continue(r, [run EXCEPT !.pc = "generateTasks", !.analysis = found])

\* generateTasks (lines 168-233): without an analysis the default tasks are
\* returned and no file is written; with one the tasks file is written.
GenerateTasks(r, ok) ==
    LET run == agent.runs[r] IN
    /\ run.pc = "generateTasks"
    /\ ~run.analysis => ok
    /\ Continue(r,
           IF ~run.analysis THEN [run EXCEPT !.pc = "generatePrompt"]
           ELSE IF ok THEN [run EXCEPT !.pc = "generatePrompt",
                                       !.wrote = @ \cup {"tasks"}]
           ELSE Caught(run))

\* generatePrompt (lines 256-290): the prompt file is written.
GeneratePrompt(r, ok) ==
    LET run == agent.runs[r] IN
    /\ run.pc = "generatePrompt"
    /\ Continue(r, IF ok THEN [run EXCEPT !.pc = "updateProgress",
                                          !.wrote = @ \cup {"prompt"}]
                   ELSE Caught(run))

\* updateProgress, lines 295-304: the progress record of the cycle is
\* written.
UpdateProgress(r, ok) ==
    LET run == agent.runs[r] IN
    /\ run.pc = "updateProgress"
    /\ Continue(r, IF ok THEN [run EXCEPT !.pc = "updateReadmeProgress",
                                          !.wrote = @ \cup {"progress"}]
                   ELSE Caught(run))

\* updateProgress, line 307: updateReadmeProgress, which catches its own
\* failures; then run decides whether to create an issue (lines 466-472).
AgentUpdatesReadme(r, ok) ==
    LET run == agent.runs[r] IN
    /\ run.pc = "updateReadmeProgress"
    /\ readme' = [readme EXCEPT
           !.calls = @ + 1,
           !.content = IF ok THEN ReplaceProgress(@, run.cycle) ELSE @]
    /\ agent' = [agent EXCEPT !.runs[r].pc =
           IF /\ run.auto_create_pr
              /\ run.mode \in {"full", "create-issue"}
              /\ run.githubToken
           THEN "issueConfig" ELSE "completeLoad"]
    /\ UNCHANGED notAgentVars

\* createGitHubIssue, line 350: loadConfig.
IssueLoadConfig(r, ok) ==
    LET run == agent.runs[r] IN
    /\ run.pc = "issueConfig"
    /\ Continue(r, IF ok THEN [run EXCEPT !.pc = "issueCycle"]
                   ELSE Caught(run))

\* createGitHubIssue, line 354: getCurrentCycle (lines 423-426) loads the
\* status for the title of the issue.
IssueCurrentCycle(r, ok) ==
    LET run == agent.runs[r] IN
    /\ run.pc = "issueCycle"
    /\ Continue(r, IF ok THEN [run EXCEPT !.pc = "issuePost"]
                   ELSE Caught(run))

\* createGitHubIssue, lines 359-371: one POST to the issues endpoint; a
\* response that is not ok throws.
CreateGitHubIssue(r, ok) ==
    LET run == agent.runs[r] IN
    /\ run.pc = "issuePost"
    /\ Continue(r, IF ok THEN [run EXCEPT !.pc = "completeLoad",
                                          !.issues = @ + 1]
                   ELSE Caught(run))

\* Line 475: loadStatus.
CompleteLoad(r, ok) ==
    LET run == agent.runs[r] IN
    /\ run.pc = "completeLoad"
    /\ Continue(r, IF ok THEN [run EXCEPT !.pc = "completeSave",
                                          !.status = agent.file]
                   ELSE Caught(run))

\* Lines 476-480: the loaded object is marked complete and saved; the
\* process ends with code 0.
CompleteSave(r, ok) ==
    LET run == agent.runs[r]
        status == [run.status EXCEPT
                      !.status = "cycle_complete", !.current_task = "null",
                      !.next_action = "waiting_for_pr_completion"]
    IN
    /\ run.pc = "completeSave"
    /\ IF ok
       THEN Save(r, status,
                 Ended([run EXCEPT !.status = status], "complete", 0, status))
       ELSE Continue(r, Caught(run))

\* Line 491, in the catch block: loadStatus.  When it rejects, the promise of
\* run rejects with nobody handling it (line 510): nothing is recorded and
\* the exit code is the runtime's choice for an unhandled rejection.
CatchLoad(r, ok, code) ==
    LET run == agent.runs[r] IN
    /\ run.pc = "catchLoad"
    /\ ok => code = 1
    /\ Continue(r, IF ok THEN [run EXCEPT !.pc = "catchSave",
                                          !.status = agent.file]
                   ELSE Ended(run, "rejected", code, agent.file))

\* Lines 492-500: the loaded object gets status error and one more entry in
\* errors and is saved; process.exit(1).  A failing save rejects like a
\* failing load.
CatchSave(r, ok, code) ==
    LET run == agent.runs[r]
        status == [run.status EXCEPT !.status = "error", !.errors = @ + 1]
    IN
    /\ run.pc = "catchSave"
    /\ ok => code = 1
    /\ IF ok
       THEN Save(r, status,
                 Ended([run EXCEPT !.status = status], "error", 1, status))
       ELSE Continue(r, Ended(run, "rejected", code, agent.file))

\* The steps of the run r, with every file and network operation free
\* to fail.
AgentStep(r) ==
    \/ \E mode \in Modes : \E token \in BOOLEAN : AgentRun(r, mode, token)
    \/ \E ok, enabled, auto \in BOOLEAN : LoadConfig(r, ok, enabled, auto)
    \/ \E ok \in BOOLEAN : IncrementCycleLoad(r, ok)
    \/ \E ok \in BOOLEAN : IncrementCycleSave(r, ok)
    \/ \E found \in BOOLEAN : AnalyzeLastPR(r, found)
    \/ \E ok \in BOOLEAN : GenerateTasks(r, ok)
    \/ \E ok \in BOOLEAN : GeneratePrompt(r, ok)
    \/ \E ok \in BOOLEAN : UpdateProgress(r, ok)
    \/ \E ok \in BOOLEAN : AgentUpdatesReadme(r, ok)
    \/ \E ok \in BOOLEAN : IssueLoadConfig(r, ok)
    \/ \E ok \in BOOLEAN : IssueCurrentCycle(r, ok)
    \/ \E ok \in BOOLEAN : CreateGitHubIssue(r, ok)
    \/ \E ok \in BOOLEAN : CompleteLoad(r, ok)
    \/ \E ok \in BOOLEAN : CompleteSave(r, ok)
    \/ \E ok \in BOOLEAN : \E code \in {0, 1} : CatchLoad(r, ok, code)
    \/ \E ok \in BOOLEAN : \E code \in {0, 1} : CatchSave(r, ok, code)

\* One invocation of the agent.
NextAgent == AgentStep(1)

SpecAgent == InitAgent /\ [][NextAgent]_vars

\* The steps of the run r when every file and network operation succeeds.
AgentStepOk(r) ==
    \/ \E mode \in Modes : \E token \in BOOLEAN : AgentRun(r, mode, token)
    \/ \E enabled, auto \in BOOLEAN : LoadConfig(r, TRUE, enabled, auto)
    \/ IncrementCycleLoad(r, TRUE)
    \/ IncrementCycleSave(r, TRUE)
    \/ \E found \in BOOLEAN : AnalyzeLastPR(r, found)
    \/ GenerateTasks(r, TRUE)
    \/ GeneratePrompt(r, TRUE)
    \/ UpdateProgress(r, TRUE)
    \/ AgentUpdatesReadme(r, TRUE)
    \/ IssueLoadConfig(r, TRUE)
    \/ IssueCurrentCycle(r, TRUE)
    \/ CreateGitHubIssue(r, TRUE)
    \/ CompleteLoad(r, TRUE)
    \/ CompleteSave(r, TRUE)

\* Invocations on the same working directory, one after another or side by
\* side, on a file system and a network that do not fail.
NextAgents == \E r \in Agents : AgentStepOk(r)

SpecAgents == InitAgent /\ [][NextAgents]_vars

\* determineOverallStatus on its own: the summary a fresh reporter holds
\* after the sweep and the collection steps, for every registry of up to
\* MaxFleet services, every number of healthy ones (the others failed), and
\* every number of warnings up to MaxWarnings.
SweptSummary(n, h, w) ==
    LET s == [InitSummary EXCEPT !.total_servers = n,
                                 !.healthy_servers = h,
                                 !.failed_servers = n - h,
                                 !.warnings = w]
    IN  [s EXCEPT !.health_score = HealthScore(s)]

InitStatus ==
    /\ pc = "determineOverallStatus"
    /\ calls = 1
    /\ outcome = "pending"
    /\ exitCode = -1
    /\ \E n \in 0..MaxFleet : \E h \in 0..n : \E w \in 0..MaxWarnings :
           summary = SweptSummary(n, h, w)
    /\ system_info = "undefined"
    /\ mcp_servers = UndefinedComponent
    /\ workflows = "undefined"
    /\ packages = "undefined"
    /\ performance = "undefined"
    /\ recommendations = <<>>
    /\ artifacts = <<>>
    /\ servers = 0
    /\ registry = <<>>
    /\ idx = 0
    /\ serverResults = <<>>
    /\ files = [p \in Paths |-> NoFile]
    /\ probeLog = <<>>
    /\ failedSteps = {}
    /\ ioFailed = {}
    /\ attempted = {}
    /\ runPc = [r \in Runs |-> "idle"]
    /\ runDate = [r \in Runs |-> 0]
    /\ runSummary = [r \in Runs |-> InitSummary]
    /\ disk = [p \in DiskPaths |-> NoFile]
    /\ probe = NoProbe
    /\ tester = NewTester
    /\ oauth = NewServer
    /\ readme = NoReadme
    /\ agent = NoAgent

NextStatus == DetermineOverallStatus

SpecStatus == InitStatus /\ [][NextStatus]_vars

\* ------------------------------------------------ reporters side by side
\* Several reporter processes (each its own MCPStatusReporter object, as
\* the CLI entry constructs one) persist into the same report directory.
\* A run is taken from generateReports on: the steps before it touch only
\* the run's own object.  Its summary is the one of a sweep with
\* well-formed components in which no collection step counted a warning.

\* The constructor takes the timestamp (line 333); generateFullReport runs
\* up to and including determineOverallStatus (lines 843-850).  Runs are
\* started in order and the clock does not go back.
RunAggregates(r, d, n, h) ==
    /\ runPc[r] = "idle"
    /\ r > 1 => (runPc[r - 1] # "idle" /\ d >= runDate[r - 1])
    /\ runDate' = [runDate EXCEPT ![r] = d]
    /\ runSummary' = [runSummary EXCEPT ![r] =
           [SweptSummary(n, h, 0) EXCEPT
               !.overall_status = OverallStatus(SweptSummary(n, h, 0))]]
    /\ runPc' = [runPc EXCEPT ![r] = "writeJson"]
    /\ UNCHANGED <<notOverlapVars, disk>>

\* A rejected fs call rejects generateReports and generateFullReport.
RunStep(r, ok, next) ==
    runPc' = [runPc EXCEPT ![r] = IF ok THEN next ELSE "rejected"]

\* Lines 705-706: timestampDir/mcp-status-report.json.
RunWritesJson(r, ok) ==
    /\ runPc[r] = "writeJson"
    /\ RunStep(r, ok, "writeMarkdown")
    /\ disk' = IF ok
               THEN [disk EXCEPT ![<<runDate[r], "json">>] =
                        JsonDocument(r, runSummary[r], <<>>)]
               ELSE disk
    /\ UNCHANGED <<notOverlapVars, runDate, runSummary>>

\* Lines 709-711: timestampDir/mcp-status-report.md.
RunWritesMarkdown(r, ok) ==
    /\ runPc[r] = "writeMarkdown"
    /\ RunStep(r, ok, "writeSummary")
    /\ disk' = IF ok
               THEN [disk EXCEPT ![<<runDate[r], "md">>] =
                        MarkdownDocument(r, runSummary[r])]
               ELSE disk
    /\ UNCHANGED <<notOverlapVars, runDate, runSummary>>

\* Lines 714-716: timestampDir/mcp-status-summary.txt.
RunWritesSummary(r, ok) ==
    /\ runPc[r] = "writeSummary"
    /\ RunStep(r, ok, "copyJson")
    /\ disk' = IF ok
               THEN [disk EXCEPT ![<<runDate[r], "summary">>] =
                        SummaryDocument(r, runSummary[r])]
               ELSE disk
    /\ UNCHANGED <<notOverlapVars, runDate, runSummary>>

\* Line 726: copyFile copies what the dated JSON file holds now.
RunCopiesJson(r, ok) ==
    /\ runPc[r] = "copyJson"
    /\ RunStep(r, ok, "copyMarkdown")
    /\ disk' = IF ok
               THEN [disk EXCEPT ![<<0, "json">>] =
                        disk[<<runDate[r], "json">>]]
               ELSE disk
    /\ UNCHANGED <<notOverlapVars, runDate, runSummary>>

\* Line 727, then generateFullReport resolves (lines 853-858).
RunCopiesMarkdown(r, ok) ==
    /\ runPc[r] = "copyMarkdown"
    /\ RunStep(r, ok, "resolved")
    /\ disk' = IF ok
               THEN [disk EXCEPT ![<<0, "md">>] =
                        disk[<<runDate[r], "md">>]]
               ELSE disk
    /\ UNCHANGED <<notOverlapVars, runDate, runSummary>>

NextOverlap ==
    \/ \E r \in Runs : \E d \in 1..Len(Dates) : \E n \in 0..MaxServers :
           \E h \in 0..n : RunAggregates(r, d, n, h)
    \/ \E r \in Runs : \E ok \in BOOLEAN : RunWritesJson(r, ok)
    \/ \E r \in Runs : \E ok \in BOOLEAN : RunWritesMarkdown(r, ok)
    \/ \E r \in Runs : \E ok \in BOOLEAN : RunWritesSummary(r, ok)
    \/ \E r \in Runs : \E ok \in BOOLEAN : RunCopiesJson(r, ok)
    \/ \E r \in Runs : \E ok \in BOOLEAN : RunCopiesMarkdown(r, ok)

SpecOverlap == Init /\ [][NextOverlap]_vars

\* ------------------------------------------------------------ properties
\* Positions of a call at which collectMCPServerStatus has returned.
AfterServerStatus ==
    {"collectWorkflowStatus", "collectPackageStatus",
     "collectPerformanceMetrics", "generateRecommendations",
     "determineOverallStatus", "writeJson", "writeMarkdown", "writeSummary",
     "copyJson", "copyMarkdown"}

\* The sweep of the current call has been performed.
SweepDone ==
    \/ pc \in AfterServerStatus
    \/ pc = "settled" /\ "mkdir" \notin ioFailed

\* The registry was read in the current call.
RegistryLoaded == "registry" \notin failedSteps

\* Probes of this sweep that returned true / did not.
ProbedHealthy == {i \in 1..Len(probeLog) : probeLog[i].kind = "true"}
ProbedFailed == {i \in 1..Len(probeLog) : probeLog[i].kind # "true"}

\* The structured document of the current call has been written.
JsonWritten == "run/json" \in attempted /\ "run/json" \notin ioFailed

ArtifactWrites == {"run/json", "run/md", "run/summary"}

HealthScoreInRange ==
    SweepDone =>
        /\ summary.health_score \in 0..100
        /\ servers = 0 => summary.health_score = 0

\* C3: at the end of collectMCPServerStatus, health_score is
\* round(healthy / total * 100), with healthy the number of probes of this
\* sweep that returned true and total the registry size, and 0 when the
\* registry is empty.
HealthScoreOfThisSweep ==
    pc = "collectWorkflowStatus" =>
        summary.health_score =
            IF servers > 0
            THEN (200 * Cardinality(ProbedHealthy) + servers) \div (2 * servers)
            ELSE 0

\* C4: healthy_servers + failed_servers never exceeds total_servers, and when
\* the sweep over N services finishes the two counters partition the N
\* services: healthy counts the probes that returned true, failed those that
\* returned false or threw.
CountersPartitionServices ==
    /\ summary.healthy_servers + summary.failed_servers
           <= summary.total_servers
    /\ (pc = "collectWorkflowStatus" /\ RegistryLoaded) =>
           /\ summary.healthy_servers = Cardinality(ProbedHealthy)
           /\ summary.failed_servers = Cardinality(ProbedFailed)
           /\ summary.healthy_servers + summary.failed_servers = servers

\* C5: the per-service mapping of the report has exactly N entries, one per
\* registered service name, each with that service's probe result; a
\* registry that failed to load counts as N = 0.
OneResultPerService ==
    JsonWritten =>
        /\ Len(mcp_servers.entries) = servers
        /\ \A i \in 1..Len(mcp_servers.entries) :
               /\ mcp_servers.entries[i].name = registry[i]
               /\ mcp_servers.entries[i].status
                      \in {"healthy", "unhealthy", "error"}

\* C6: when loading the registry fails and no file operation fails, the call
\* resolves with total_servers = 0, health_score = 0, a warning counted and
\* an overall status computed, and the CLI exits 0.
RegistryFailureTolerated ==
    (pc = "settled" /\ ~RegistryLoaded /\ ioFailed = {}) =>
        /\ outcome = "resolved"
        /\ summary.total_servers = 0
        /\ summary.health_score = 0
        /\ summary.warnings >= 1
        /\ summary.overall_status # "unknown"
        /\ exitCode \in {-1, 0}

\* C7: when a peripheral collection step (system info, workflows, packages,
\* performance) fails, each such failure counts exactly one warning, the
\* later steps still run, and, no file operation failing, the call resolves
\* with its artifacts written.
CollectionFailureTolerated ==
    (/\ pc = "settled"
     /\ RegistryLoaded
     /\ failedSteps # {}
     /\ ioFailed = {}) =>
        /\ outcome = "resolved"
        /\ ArtifactWrites \subseteq attempted
        /\ summary.warnings =
               Cardinality(failedSteps)
               + (IF performance = "needs_optimization" THEN 1 ELSE 0)

\* C8, state part: every probe that threw left a result with status error and
\* the exception's message under its service's name, and once the loop is
\* over every service of the registry has been probed and classified.
ProbeErrorRecorded ==
    /\ \A i \in 1..Len(probeLog) :
           probeLog[i].kind = "throw" =>
               /\ i <= Len(serverResults)
               /\ serverResults[i]
                      = ServerEntry(registry[i], "error", probeLog[i].msg)
    /\ (pc \in AfterServerStatus /\ RegistryLoaded) =>
           /\ Len(probeLog) = servers
           /\ Len(mcp_servers.entries) = servers
           /\ \A i \in 1..servers :
                  /\ mcp_servers.entries[i].name = registry[i]
                  /\ mcp_servers.entries[i].status =
                         CASE probeLog[i].kind = "true" -> "healthy"
                           [] probeLog[i].kind = "false" -> "unhealthy"
                           [] OTHER -> "error"

\* C8, step part: the step in which a probe throws adds one to
\* failed_servers, leaves healthy_servers, the warnings and every result
\* recorded before unchanged, keeps the call pending and moves on to the next
\* service (or past the loop after the last one).
ProbeErrorStep ==
    (/\ Len(probeLog') = Len(probeLog) + 1
     /\ probeLog'[Len(probeLog')].kind = "throw") =>
        /\ summary'.failed_servers = summary.failed_servers + 1
        /\ summary'.healthy_servers = summary.healthy_servers
        /\ summary'.warnings = summary.warnings
        /\ Len(serverResults') = Len(serverResults) + 1
        /\ \A j \in 1..Len(serverResults) :
               serverResults'[j] = serverResults[j]
        /\ outcome' = "pending"
        /\ IF idx < servers
           THEN pc' = "probeHealth" /\ idx' = idx + 1
           ELSE pc' = "collectWorkflowStatus"

\* C8: a probe that throws yields status error with the exception's message
\* and one more failed server, and does not abort the sweep: the later
\* services are still probed and classified and the earlier results stay.
ProbeErrorIsolated == []ProbeErrorRecorded /\ [][ProbeErrorStep]_vars

\* C8 witness: the second of three services threw; the first and the third
\* are classified healthy, the second error.
ProbeErrorBetweenHealthy ==
    /\ pc = "collectWorkflowStatus"
    /\ Len(probeLog) >= 3
    /\ probeLog[2].kind = "throw"
    /\ mcp_servers.entries[1].status = "healthy"
    /\ mcp_servers.entries[2].status = "error"
    /\ mcp_servers.entries[2].error_message = probeLog[2].msg
    /\ mcp_servers.entries[3].status = "healthy"
    /\ summary.failed_servers = 1

\* C9 as stated: when exactly one of the three artifact writes fails, the
\* other two are still attempted, and the call fails only when every
\* persistence attempt failed.
PersistenceFailureTolerated ==
    (pc = "settled" /\ Cardinality(ioFailed \cap ArtifactWrites) = 1) =>
        /\ ArtifactWrites \subseteq attempted
        /\ outcome = "rejected" => ArtifactWrites \subseteq ioFailed

\* C9 amended: the file operations of generateReports run in order and the
\* first one that fails ends the call: no later operation is attempted, no
\* later file is written by this call, and the call rejects.
FirstPersistenceFailureAborts ==
    /\ ioFailed # {} => outcome = "rejected" /\ pc = "settled"
    /\ \A i \in 1..Len(WriteOrder) : \A j \in 1..Len(WriteOrder) :
           (i < j /\ WriteOrder[i] \in ioFailed) =>
               /\ WriteOrder[j] \notin attempted
               /\ files[WriteOrder[j]].run # calls

\* C9 witness: the Markdown write failed after the JSON document was
\* written; the summary was never attempted and the call rejected.
MarkdownWriteFailed ==
    /\ pc = "settled"
    /\ "run/md" \in ioFailed
    /\ files["run/json"] # NoFile
    /\ "run/summary" \notin attempted
    /\ outcome = "rejected"

\* C10: the CLI exits only after the call has settled, with code 0 exactly
\* when generateFullReport resolved and a non-zero code exactly when it
\* rejected, whatever the probes returned.
ExitCodeFollowsPromise ==
    exitCode # -1 =>
        /\ pc = "settled"
        /\ outcome \in {"resolved", "rejected"}
        /\ exitCode = 0 <=> outcome = "resolved"
        /\ exitCode # 0 <=> outcome = "rejected"

\* C10 witness: the CLI exited 0 on a fleet in which no probe returned true
\* and the overall status is critical.
ExitZeroOnCriticalFleet ==
    /\ exitCode = 0
    /\ servers >= 1
    /\ summary.healthy_servers = 0
    /\ summary.failed_servers = servers
    /\ summary.overall_status = "critical"

\* The five values determineOverallStatus can assign.
FinalStatuses == {"healthy", "partial", "warning", "degraded", "critical"}

\* Every probe of a non-empty registry returned true in this sweep.
AllProbesHealthy ==
    /\ servers >= 1
    /\ Len(probeLog) = servers
    /\ \A i \in 1..Len(probeLog) : probeLog[i].kind = "true"

HasRec(prio, cat) ==
    \E i \in 1..Len(recommendations) :
        recommendations[i] = [priority |-> prio, category |-> cat]

\* C13: once the JSON document is written the results object is final: the
\* object generateFullReport returns equals the persisted JSON document
\* field for field.
ReturnedReportEqualsPersisted ==
    (pc = "settled" /\ outcome = "resolved") =>
        files["run/json"] = JsonDocument(calls, summary, artifacts)

MaintenanceRecommendationLast ==
    pc = "determineOverallStatus" =>
        /\ Len(recommendations) >= 1
        /\ recommendations[Len(recommendations)]
               = [priority |-> "low", category |-> "maintenance"]
        /\ Cardinality({i \in 1..Len(recommendations) :
                            recommendations[i].category = "maintenance"}) = 1

\* C17 witness: a list in which the maintenance item follows three findings.
MaintenanceAfterThreeFindings ==
    /\ pc = "determineOverallStatus"
    /\ Len(recommendations) = 4
    /\ recommendations[4].category = "maintenance"

\* C18: the list holds, in this order and with nothing else, a high health
\* item iff score < 50, else a medium health item iff score < 80, a medium
\* performance item iff the rating is needs_optimization, a medium workflows
\* item iff a required workflow is missing, and the low maintenance item.
RecommendationRules ==
    pc = "determineOverallStatus" =>
        LET r == recommendations
            high == summary.health_score < 50
            med == summary.health_score >= 50 /\ summary.health_score < 80
            perf == performance = "needs_optimization"
            wf == workflows = "missing"
            nH == IF high \/ med THEN 1 ELSE 0
            nP == IF perf THEN 1 ELSE 0
            nW == IF wf THEN 1 ELSE 0
        IN  /\ Len(r) = nH + nP + nW + 1
            /\ high => r[1] = [priority |-> "high", category |-> "health"]
            /\ med => r[1] = [priority |-> "medium", category |-> "health"]
            /\ perf => r[nH + 1]
                           = [priority |-> "medium", category |-> "performance"]
            /\ wf => r[nH + nP + 1]
                         = [priority |-> "medium", category |-> "workflows"]
            /\ r[nH + nP + nW + 1]
                   = [priority |-> "low", category |-> "maintenance"]

\* C18 witness: the medium health, performance and workflows rules all
\* matched and all contributed.
ThreeRulesContribute ==
    /\ pc = "determineOverallStatus"
    /\ summary.health_score >= 50
    /\ summary.health_score < 80
    /\ performance = "needs_optimization"
    /\ workflows = "missing"
    /\ Len(recommendations) = 4
    /\ recommendations[1] = [priority |-> "medium", category |-> "health"]
    /\ recommendations[2].category = "performance"
    /\ recommendations[3].category = "workflows"

\* C19, step part: the step of generateRecommendations leaves the summary,
\* the components and system_info as they were.
RecommendationsStepFrame ==
    (pc = "generateRecommendations" /\ pc' # pc) =>
        /\ summary' = summary
        /\ system_info' = system_info
        /\ mcp_servers' = mcp_servers
        /\ workflows' = workflows
        /\ packages' = packages
        /\ performance' = performance
        /\ artifacts' = artifacts

\* C19, state part: the health finding of the list agrees with the score the
\* persisted JSON report carries.
RecommendationsMatchPersisted ==
    JsonWritten =>
        /\ HasRec("high", "health") <=> files["run/json"].health_score < 50
        /\ HasRec("medium", "health")
               <=> /\ files["run/json"].health_score >= 50
                   /\ files["run/json"].health_score < 80

\* C19: generateRecommendations changes only the recommendations list, and
\* what it derived is derived from the metrics the persisted report carries.
RecommendationsArePure ==
    []RecommendationsMatchPersisted /\ [][RecommendationsStepFrame]_vars

\* C19 witness: a JSON report with score below 50 is persisted next to a
\* list with the high health finding, and the warnings are those of the
\* collection steps alone.
PersistedWithHighFinding ==
    /\ JsonWritten
    /\ files["run/json"].health_score < 50
    /\ HasRec("high", "health")
    /\ Len(recommendations) >= 3
    /\ summary.warnings = 1

\* C20: when the first artifact write has been issued, and for every document
\* on disk, aggregation is complete: overall_status is one of the five final
\* values, every registered service has one of the three final statuses, and
\* no document or service carries the initial value unknown.
ArtifactsAfterAggregation ==
    /\ attempted # {} =>
           /\ summary.overall_status \in FinalStatuses
           /\ \A i \in 1..Len(mcp_servers.entries) :
                  mcp_servers.entries[i].status # "unknown"
           /\ RegistryLoaded =>
                  /\ Len(mcp_servers.entries) = servers
                  /\ \A i \in 1..servers :
                         mcp_servers.entries[i].status
                             \in {"healthy", "unhealthy", "error"}
    /\ \A p \in Paths :
           files[p] # NoFile =>
               \E st \in FinalStatuses :
                   files[p].overall_status \in {st, UpperCase(st)}

\* C20 witness: the JSON report of a sweep over three services, one healthy,
\* one unhealthy and one in error, is on disk.
MixedSweepPersisted ==
    /\ JsonWritten
    /\ servers = 3
    /\ {mcp_servers.entries[i].status : i \in 1..3}
           = {"healthy", "unhealthy", "error"}
    /\ files["run/json"].overall_status = "critical"

\* No run is in the middle of its work.
Quiescent == \A r \in Runs : runPc[r] \in {"idle", "resolved", "rejected"}

\* C11: after any sequence of runs, for every run whose persistence
\* completed, the JSON, Markdown and summary reports in that run's dated
\* directory report the same overall_status and the same health_score.
RunDirectoryConsistent ==
    Quiescent =>
        \A r \in Runs :
            runPc[r] = "resolved" =>
                LET j == disk[<<runDate[r], "json">>]
                    m == disk[<<runDate[r], "md">>]
                    t == disk[<<runDate[r], "summary">>]
                IN  /\ UpperCase(j.overall_status) = t.overall_status
                    /\ UpperCase(j.overall_status) = m.overall_status
                    /\ j.health_score = t.health_score
                    /\ j.health_score = m.health_score

\* C12: after any sequence of runs of which one completed, the two
\* fixed-location copies hold reports of one and the same run.
FixedCopiesFromOneRun ==
    (Quiescent /\ \E r \in Runs : runPc[r] = "resolved") =>
        disk[<<0, "json">>].run = disk[<<0, "md">>].run

\* The probes of this sweep as an unordered set of (service, outcome).
Probed == {<<registry[i], probeLog[i]>> : i \in 1..Len(probeLog)}

\* The result a probe outcome stands for.
ResultOf(x) ==
    ServerEntry(x[1],
                CASE x[2].kind = "true" -> "healthy"
                  [] x[2].kind = "false" -> "unhealthy"
                  [] OTHER -> "error",
                CASE x[2].kind = "true" -> "null"
                  [] x[2].kind = "false" -> "Health check failed"
                  [] OTHER -> x[2].msg)

\* C21, state part: in the finished report the per-service mapping, the
\* counters, the score and the status are what the set of (service, outcome)
\* pairs and the warning count determine, whatever the order of the registry.
SweepResultFromProbedSet ==
    (pc = "writeJson" /\ RegistryLoaded) =>
        LET h == Cardinality({x \in Probed : x[2].kind = "true"})
            f == Cardinality({x \in Probed : x[2].kind # "true"})
            n == Cardinality({x[1] : x \in Probed})
            score == IF n > 0 THEN RoundPercent(h, n) ELSE 0
        IN  /\ n = servers
            /\ Len(mcp_servers.entries) = n
            /\ {mcp_servers.entries[i] : i \in 1..n}
                   = {ResultOf(x) : x \in Probed}
            /\ summary.healthy_servers = h
            /\ summary.failed_servers = f
            /\ summary.health_score = score
            /\ summary.overall_status =
                   IF f > h THEN "critical"
                   ELSE IF score < 50 THEN "degraded"
                   ELSE IF summary.warnings > 3 THEN "warning"
                   ELSE IF score < 80 THEN "partial"
                   ELSE "healthy"

\* C21, step part: a step of the sweep loop adds one result, under the name
\* of the service just probed, which had no result yet, and leaves the
\* results of the other services as they were.
ProbeWritesOwnEntry ==
    pc = "probeHealth" =>
        /\ Len(serverResults') = Len(serverResults) + 1
        /\ SubSeq(serverResults', 1, Len(serverResults)) = serverResults
        /\ serverResults'[Len(serverResults')].name = registry[idx]
        /\ \A i \in 1..Len(serverResults) :
               serverResults[i].name # registry[idx]

\* C21: the finished report does not depend on the order in which the
\* services were probed, and every probe writes only its own entry, once.
ProbeOrderIrrelevant ==
    []SweepResultFromProbedSet /\ [][ProbeWritesOwnEntry]_vars

\* C21 witness: a finished sweep over three services probed in the order s3,
\* s1, s2, of which s3 threw, s1 was healthy and s2 unhealthy.
SweepInOtherOrder ==
    /\ pc = "writeJson"
    /\ registry = <<"s3", "s1", "s2">>
    /\ probeLog[1].kind = "throw"
    /\ probeLog[2].kind = "true"
    /\ probeLog[3].kind = "false"
    /\ mcp_servers.entries[1] = ServerEntry("s3", "error", probeLog[1].msg)
    /\ summary.overall_status = "critical"

LoggedBeforeReport == SubSeq(tester.tests, 1, tester.report.total_tests)

CountLogged(type) ==
    Cardinality({i \in 1..Len(LoggedBeforeReport) :
                     LoggedBeforeReport[i] = type})

\* What C23 says of the report: status passed iff failed = 0, whatever the
\* warnings, and the score round(passed / (passed + failed) * 100), or 0.
TestReportAsCounted ==
    tester.report.status # "none" =>
        /\ tester.report.failed = CountLogged("fail")
        /\ tester.report.passed = CountLogged("pass")
        /\ tester.report.status = "passed" <=> CountLogged("fail") = 0
        /\ tester.report.score =
               IF CountLogged("pass") + CountLogged("fail") = 0 THEN 0
               ELSE RoundPercent(CountLogged("pass"),
                                 CountLogged("pass") + CountLogged("fail"))

\* C23 as stated: runFullTest returns true, and the CLI exits 0, iff no
\* check logged before the report was generated had type fail.
TrueIffNoCheckFailed ==
    /\ TestReportAsCounted
    /\ tester.pc \in {"settled", "exited"} =>
           (tester.returned = "true" <=> CountLogged("fail") = 0)
    /\ tester.pc = "exited" =>
           (tester.exitCode = 0 <=> CountLogged("fail") = 0)

\* C23 amended: runFullTest returns true, and the CLI exits 0, iff no check
\* logged before the report was generated had type fail and the results file
\* was written; it returns false iff one had and the file was written; when
\* the write fails it rejects and the CLI exits 1.
TrueIffNoCheckFailedAndWritten ==
    /\ TestReportAsCounted
    /\ tester.pc \in {"settled", "exited"} =>
           /\ tester.returned = "true"
                  <=> (CountLogged("fail") = 0 /\ tester.report.written)
           /\ tester.returned = "false"
                  <=> (CountLogged("fail") > 0 /\ tester.report.written)
           /\ tester.returned = "rejected" <=> ~tester.report.written
    /\ tester.pc = "exited" =>
           (tester.exitCode = 0 <=> tester.returned = "true")

\* C23 witness: a run with a pass, a warning and no fail returned true,
\* with score 100, and the process exited 0.
PassedDespiteWarning ==
    /\ tester.pc = "exited"
    /\ tester.exitCode = 0
    /\ tester.returned = "true"
    /\ CountLogged("warn") > 0
    /\ CountLogged("pass") > 0
    /\ tester.report.status = "passed"
    /\ tester.report.score = 100

\* C24, state part: no state value has had more token exchanges than
\* issuances.
ExchangesWithinIssues ==
    \A v \in StateValues : oauth.exchanges[v] <= oauth.issued[v]

\* C24, step part: a token exchange starts only in a step that removes the
\* stored state it is for, and a callback whose state is not stored, also
\* while an exchange for that state is in flight, is answered state_mismatch.
CallbackConsumesState ==
    /\ \A v \in StateValues :
           oauth'.exchanges[v] # oauth.exchanges[v] =>
               /\ oauth.authStates[v] # -1
               /\ oauth'.authStates[v] = -1
               /\ oauth'.exchanges[v] = oauth.exchanges[v] + 1
    /\ \A v \in StateValues :
           (/\ oauth.authStates[v] = -1
            /\ oauth'.request = [path |-> "/auth/callback", state |-> v]
            /\ oauth'.inflight = oauth.inflight
            /\ oauth'.now = oauth.now
            /\ oauth'.response \notin {"access_denied", "invalid_request"})
               => /\ oauth'.response = "state_mismatch"
                  /\ oauth'.exchanges = oauth.exchanges

\* C24: each issued state authorizes at most one token exchange.
OneExchangePerState ==
    []ExchangesWithinIssues /\ [][CallbackConsumesState]_vars

\* C24 witness: a second callback with a state arrived while the token
\* exchange of the first is in flight, and was answered state_mismatch.
SecondCallbackWhileInFlight ==
    \E v \in StateValues :
        /\ oauth.issued[v] = 1
        /\ oauth.exchanges[v] = 1
        /\ oauth.inflight[v] = 1
        /\ oauth.request = [path |-> "/auth/callback", state |-> v]
        /\ oauth.response = "state_mismatch"

\* C25: no token exchange was started for a state issued more than ten
\* minutes before its callback arrived.
ExpiredStateRejected == oauth.oldest <= TenMinutes

\* The text before the line of the progress marker; the whole text when there
\* is no marker.
BeforeMarker(text) ==
    LET before == Split(text, <<"M">>)[1] IN
    IF Includes(text, <<"M">>) /\ before # <<>> /\ before[Len(before)] = "n"
    THEN SubSeq(before, 1, Len(before) - 1)
    ELSE before

\* Index of the first level-2 heading at or after i, 0 if none.
RECURSIVE NextSectionFrom(_, _)
NextSectionFrom(text, i) ==
    LET j == IndexFrom(text, <<"n", "##">>, i) IN
    IF j = 0 THEN 0
    ELSE IF j + 2 <= Len(text) /\ text[j + 2] = "#"
         THEN NextSectionFrom(text, j + 1)
         ELSE j

\* The sections that follow the progress section: the text from the first
\* level-2 heading after the marker on; nothing when there is no marker.
AfterProgressSection(text) ==
    LET m == IndexFrom(text, <<"M">>, 1)
        j == IF m = 0 THEN 0 ELSE NextSectionFrom(text, m + 1)
    IN  IF j = 0 THEN <<>> ELSE SubSeq(text, j, Len(text))

\* C30: after any number of calls that wrote the README it has exactly one
\* progress section, and the text before the progress marker and the sections
\* after the progress section are what they were before the first call.
OnlyProgressSectionChanges ==
    readme.content # readme.initial =>
        /\ Len(Split(readme.content, <<"M">>)) = 2
        /\ BeforeMarker(readme.content) = BeforeMarker(readme.initial)
        /\ AfterProgressSection(readme.content)
               = AfterProgressSection(readme.initial)

\* C26: for a fresh reporter the overall status is degraded exactly in the
\* sweeps that counted no server (an empty registry or a registry that could
\* not be loaded); with at least one server, failed <= healthy makes the score
\* at least 50.
DegradedOnlyWithoutServers ==
    pc = "writeJson" =>
        /\ summary.overall_status = "degraded" <=> summary.total_servers = 0
        /\ (/\ summary.total_servers >= 1
            /\ summary.failed_servers <= summary.healthy_servers) =>
               summary.health_score >= 50

\* C26 witness: the registry could not be loaded, no server was counted and
\* the sweep is classified degraded.
DegradedAfterRegistryFailure ==
    /\ pc = "writeJson"
    /\ "registry" \in failedSteps
    /\ summary.total_servers = 0
    /\ summary.health_score = 0
    /\ summary.overall_status = "degraded"

\* C27: every enabled run increases status.cycle by exactly one, a disabled
\* run obtains no cycle and writes nothing, and no two runs obtain the same
\* cycle number, whether they run one after another or overlap.
EachRunItsOwnCycle ==
    /\ \A r1, r2 \in Agents :
           (/\ r1 # r2
            /\ agent.runs[r1].cycle # 0
            /\ agent.runs[r2].cycle # 0) =>
               agent.runs[r1].cycle # agent.runs[r2].cycle
    /\ agent.file.cycle =
           Cardinality({r \in Agents : agent.runs[r].cycle # 0})
    /\ \A r \in Agents :
           agent.runs[r].outcome = "disabled" =>
               /\ agent.runs[r].cycle = 0
               /\ agent.runs[r].wrote = {}

\* C28: an enabled run that ended left the status file either complete
\* (cycle_complete, current_task null, next_action
\* waiting_for_pr_completion) when no step threw, or, when a step threw, in
\* error with exactly one new entry in errors and exit code 1; the cycle
\* number it obtained is the one in the file.
RunEndsRecorded ==
    \A r \in Agents :
        LET run == agent.runs[r] IN
        (run.pc = "done" /\ run.outcome # "disabled") =>
            /\ ~run.thrown =>
                   /\ run.final.status = "cycle_complete"
                   /\ run.final.current_task = "null"
                   /\ run.final.next_action = "waiting_for_pr_completion"
            /\ run.thrown =>
                   /\ run.final.status = "error"
                   /\ run.final.errors = run.errorsBefore + 1
                   /\ run.exitCode = 1
            /\ run.cycle # 0 => run.final.cycle = run.cycle

\* C29: a run has created an issue only if the agent is enabled,
\* auto_create_pr is set, the mode is full or create-issue and a token is
\* present; it created at most one, and only after the tasks, the prompt and
\* the progress record of its cycle were written.
IssueOnlyAfterRecords ==
    \A r \in Agents :
        LET run == agent.runs[r] IN
        run.issues > 0 =>
            /\ run.enabled
            /\ run.auto_create_pr
            /\ run.mode \in {"full", "create-issue"}
            /\ run.githubToken
            /\ run.issues = 1
            /\ {"tasks", "prompt", "progress"} \subseteq run.wrote

====
